---------------------------- MODULE Spec2Model ----------------------------
(***************************************************************************)
(* trufflePy: the history walker, the diff scanner, the two detectors,     *)
(* the path filter (src/search/engine.py) and the github command           *)
(* (src/main/app.py).                                                      *)
(*                                                                         *)
(* Text is a sequence of one-character strings.  A compiled regular        *)
(* expression is a sequence of character classes (sets of characters), one *)
(* per matched character: literals and fixed-count classes such as         *)
(* AKIA[0-9A-Z]{16}.  An optional value (None or a value v) is <<>> or     *)
(* <<v>>; the absent commit is 0; an absent path is the empty path, which  *)
(* Python's truth test treats like None.                                   *)
(***************************************************************************)
EXTENDS Integers, Sequences, FiniteSets, TLC

VARIABLES
    pc,                 \* position of the running entry point
    \* ---- SearchEngine fields (engine.py:27-34)
    regexes,            \* self.regexes: sequence of [key, regex], insertion order
    path_inclusions,    \* self.path_inclusions: None or Some(sequence of patterns)
    path_exclusions,    \* self.path_exclusions: None or Some(sequence of patterns)
    since_commit,       \* self.since_commit: None or Some(hexsha)
    max_depth,          \* self.max_depth: None (no bound) or Some(count)
    already_searched,   \* self.already_searched: set of diff hashes
    findings,           \* self.findings: sequence of finding records
    \* ---- the repository (GitPython's view of it)
    parents,            \* commit -> set of parent commits
    branches,           \* the FetchInfo list of origin.fetch(): branch tips
    pyc_data,           \* what the repository's .pyc blobs hold
    \* ---- _search_branch locals
    bi,                 \* index of the branch being walked
    todo,               \* commits the iter_commits iterator has not yielded yet
    prev_commit,        \* prev_commit
    curr_commit,        \* curr_commit
    scanLog,            \* history: one record per _search_diff call
    \* ---- _search_diff locals
    diff,               \* the diff being searched: sequence of blobs
    blob_idx,           \* index of the blob the loop is at
    calls,              \* history: detector calls, <<detector, blob index>>
    tmpfiles,           \* temporary files that exist
    tmpmade,            \* history: number of temporary files ever created
    \* ---- _path_included
    blob,               \* the blob argument
    included,           \* the returned value (FALSE before the call)
    \* ---- _regex_check locals
    printable_diff,     \* printable_diff, rebound by the highlighting
    orig_diff,          \* history: the printable_diff argument as passed
    rule_idx,           \* index of the rule the loop is at
    \* ---- app.github / app.url
    repos,              \* get_repos(): sequence of [clone_url, clonable]
    repo_idx,           \* index of the repository the loop is at
    url_calls,          \* history: clone_url of every url(args) call
    output,             \* history: the ERROR lines printed
    exit_code,          \* process exit code (0 unless sys.exit(1) ran)
    \* ---- _get_strings_of_set arguments and locals
    word,               \* word
    char_set,           \* char_set
    threshold,          \* threshold
    char_idx,           \* index of the character the loop is at
    count,              \* count
    letters,            \* letters
    strings             \* strings

vars == <<pc, regexes, path_inclusions, path_exclusions, since_commit, max_depth,
          already_searched, findings, parents, branches, pyc_data, bi, todo,
          prev_commit, curr_commit, scanLog, diff, blob_idx, calls, tmpfiles,
          tmpmade, blob, included, printable_diff, orig_diff, rule_idx, repos,
          repo_idx, url_calls, output, exit_code, word, char_set, threshold,
          char_idx, count, letters, strings>>

\* Python's None for an optional value, and a present value.
None == <<>>
Some(v) == <<v>>

\* prev_commit = None: no commit (commits are numbered from 1).
NoCommit == 0

\* ------------------------------------------------------------------ bounds
NCommits == 3
MaxBranches == 2
MaxRepos == 3
MaxBlobs == 2
MaxRules == 2
MaxPatterns == 2
MaxText == 3
MaxWord == 3
MaxThreshold == 2

\* ------------------------------------------------------------- text helpers
Range(s) == {s[i] : i \in DOMAIN s}

SeqsUpTo(S, n) == UNION {[1..k -> S] : k \in 0..n}

\* str.startswith
StartsWith(s, p) == Len(s) >= Len(p) /\ SubSeq(s, 1, Len(p)) = p

\* str.endswith
EndsWith(s, p) == Len(s) >= Len(p) /\ SubSeq(s, Len(s) - Len(p) + 1, Len(s)) = p

RECURSIVE Flatten(_)
Flatten(ss) == IF ss = <<>> THEN <<>> ELSE Head(ss) \o Flatten(Tail(ss))

\* str.replace(old, new): every non-overlapping occurrence, left to right; an
\* empty old inserts new before every character and at the end.
RECURSIVE Replace(_, _, _)
Replace(s, old, new) ==
    IF old = <<>> THEN Flatten([i \in 1..Len(s) |-> new \o <<s[i]>>]) \o new
    ELSE IF Len(s) < Len(old) THEN s
    ELSE IF StartsWith(s, old)
         THEN new \o Replace(SubSeq(s, Len(old) + 1, Len(s)), old, new)
         ELSE <<s[1]>> \o Replace(Tail(s), old, new)

\* str.split(sep) for a one-character sep: the pieces between separators,
\* empty pieces kept.
RECURSIVE SplitOn(_, _, _)
SplitOn(s, sep, acc) ==
    IF s = <<>> THEN <<acc>>
    ELSE IF Head(s) = sep THEN <<acc>> \o SplitOn(Tail(s), sep, <<>>)
    ELSE SplitOn(Tail(s), sep, Append(acc, Head(s)))

Whitespace == {" ", "\t", "\n", "\r"}

\* str.split(): the maximal runs of non-whitespace characters.
RECURSIVE SplitWords(_, _)
SplitWords(s, acc) ==
    IF s = <<>> THEN (IF acc = <<>> THEN <<>> ELSE <<acc>>)
    ELSE IF Head(s) \in Whitespace
         THEN (IF acc = <<>> THEN <<>> ELSE <<acc>>) \o SplitWords(Tail(s), <<>>)
         ELSE SplitWords(Tail(s), Append(acc, Head(s)))

\* ------------------------------------------------------ regular expressions
\* The pattern p matches s at position i (re's match at a position).
MatchAt(p, s, i) ==
    /\ i + Len(p) - 1 <= Len(s)
    /\ \A k \in 1..Len(p) : s[i + k - 1] \in p[k]

\* Pattern.search(s): a match anywhere in s (what match is not).
ReSearch(p, s) == \E i \in 1..Len(s) + 1 : MatchAt(p, s, i)

\* Pattern.match(s): a match anchored at the start of s.
ReMatch(p, s) == MatchAt(p, s, 1)

\* Pattern.findall(s): the non-overlapping matches, scanning left to right.
RECURSIVE FindAllFrom(_, _, _)
FindAllFrom(p, s, i) ==
    IF i + Len(p) - 1 > Len(s) THEN <<>>
    ELSE IF MatchAt(p, s, i)
         THEN <<SubSeq(s, i, i + Len(p) - 1)>> \o FindAllFrom(p, s, i + Len(p))
         ELSE FindAllFrom(p, s, i + 1)

FindAll(p, s) == FindAllFrom(p, s, 1)

\* A literal pattern: one singleton class per character.
Lit(s) == [i \in 1..Len(s) |-> {s[i]}]

\* ------------------------------------------------------------------ colors
WARNING == <<"ESC", "[", "9", "3", "m">>
ENDC == <<"ESC", "[", "0", "m">>

make_warning(text) == WARNING \o text \o ENDC

\* ------------------------------------------------------------- path filter
\* Python truthiness of an optional pattern list: None and [] are falsy.
Truthy(x) == x # None /\ x[1] # <<>>

\* any(p.match(path) for p in patterns)
AnyMatch(patterns, path) ==
    \E i \in DOMAIN patterns[1] : ReMatch(patterns[1][i], path)

\* blob.b_path if blob.b_path else blob.a_path
BlobPath(b) == IF b.b_path # <<>> THEN b.b_path ELSE b.a_path

_path_included(b, inclusions, exclusions) ==
    IF Truthy(inclusions) /\ ~AnyMatch(inclusions, BlobPath(b)) THEN FALSE
    ELSE IF Truthy(exclusions) /\ AnyMatch(exclusions, BlobPath(b)) THEN FALSE
    ELSE TRUE

\* ---------------------------------------------------------------- commits
Commits == 1..NCommits

HexDigits == <<"0", "1", "2", "3", "4", "5", "6", "7", "8", "9",
               "a", "b", "c", "d", "e", "f">>

\* commit.hexsha and str(commit): a fixed-length hexadecimal string.
hexsha(c) == <<HexDigits[(c \div 16) + 1], HexDigits[(c % 16) + 1]>>

\* str(x) for a commit or None.
PyStr(c) == IF c = NoCommit THEN <<"N", "o", "n", "e">> ELSE hexsha(c)

\* commit.message
message(c) == <<"m", "s", "g", HexDigits[(c % 16) + 1]>>

\* commit.committed_date: seconds; later commits are later.
committed_date(c) == 3600 * c + 61 * c + 58

\* datetime.fromtimestamp(t).strftime('... %H:%M:%S'): hours, minutes, seconds.
FormatTime(t) == <<(t \div 3600) % 24, (t \div 60) % 60, t % 60>>

\* hashlib.md5(...).digest(): taken as collision-free on the strings hashed.
Md5(s) == <<"md5", s>>

_calculate_diff_hash(prev, curr) == Md5(PyStr(prev) \o PyStr(curr))

\* ------------------------------------------------------- entropy detector
BASE64_CHARS ==
    <<"A", "B", "C", "D", "E", "F", "G", "H", "I", "J", "K", "L", "M", "N", "O",
      "P", "Q", "R", "S", "T", "U", "V", "W", "X", "Y", "Z", "a", "b", "c", "d",
      "e", "f", "g", "h", "i", "j", "k", "l", "m", "n", "o", "p", "q", "r", "s",
      "t", "u", "v", "w", "x", "y", "z", "0", "1", "2", "3", "4", "5", "6", "7",
      "8", "9", "+", "/", "=">>

HEX_CHARS ==
    <<"1", "2", "3", "4", "5", "6", "7", "8", "9", "0", "a", "b", "c", "d", "e",
      "f", "A", "B", "C", "D", "E", "F">>

Threshold == 20
B64EntropyLimit == 45000
HexEntropyLimit == 30000

\* floor(10000 * log2(k)) for k = 1..40: math.log(x, 2) in fixed point.
Log2Table ==
    <<0, 10000, 15849, 20000, 23219, 25849, 28073, 30000, 31699, 33219, 34594,
      35849, 37004, 38073, 39068, 40000, 40874, 41699, 42479, 43219, 43923,
      44594, 45235, 45849, 46438, 47004, 47548, 48073, 48579, 49068, 49541,
      50000, 50443, 50874, 51292, 51699, 52094, 52479, 52854, 53219>>

Count(data, x) == Cardinality({i \in DOMAIN data : data[i] = x})

RECURSIVE SumTo(_, _)
SumTo(f, k) == IF k = 0 THEN 0 ELSE f[k] + SumTo(f, k - 1)

\* The entropy in 1/10000 bit: sum over the iterator of -p_x*log2(p_x) with
\* p_x = count(x)/len(data), that is count(x)*(log2(len) - log2(count(x)))/len.
_shannon_entropy(data, iterator) ==
    IF data = <<>> THEN 0
    ELSE LET n == Len(data)
             term == [k \in DOMAIN iterator |->
                        LET c == Count(data, iterator[k])
                        IN IF c > 0 THEN c * (Log2Table[n] - Log2Table[c]) ELSE 0]
         IN SumTo(term, Len(iterator)) \div n

\* The loop of _get_strings_of_set over word[i..]; st = [count, letters, strings].
RECURSIVE StringsOfSetLoop(_, _, _, _, _)
StringsOfSetLoop(w, i, cs, th, st) ==
    IF i > Len(w)
    THEN IF st.count > th THEN Append(st.strings, st.letters) ELSE st.strings
    ELSE IF w[i] \in Range(cs)
         THEN StringsOfSetLoop(w, i + 1, cs, th,
                  [st EXCEPT !.letters = Append(@, w[i]), !.count = @ + 1])
         ELSE StringsOfSetLoop(w, i + 1, cs, th,
                  [count |-> 0, letters |-> <<>>,
                   strings |-> IF st.count > th
                               THEN Append(st.strings, st.letters) ELSE st.strings])

_get_strings_of_set(w, cs, th) ==
    StringsOfSetLoop(w, 1, cs, th,
                     [count |-> 0, letters |-> <<>>, strings |-> <<>>])

\* One "for string in ..." loop of _find_entropy; acc = [found, text].
RECURSIVE EntropyStrings(_, _, _, _)
EntropyStrings(strs, iterator, limit, acc) ==
    IF strs = <<>> THEN acc
    ELSE LET string == Head(strs)
             next == IF _shannon_entropy(string, iterator) > limit
                     THEN [found |-> Append(acc.found, string),
                           text |-> Replace(acc.text, string, make_warning(string))]
                     ELSE acc
         IN EntropyStrings(Tail(strs), iterator, limit, next)

RECURSIVE EntropyWords(_, _)
EntropyWords(words, acc) ==
    IF words = <<>> THEN acc
    ELSE LET w == Head(words)
             base64_strings == _get_strings_of_set(w, BASE64_CHARS, Threshold)
             hex_strings == _get_strings_of_set(w, HEX_CHARS, Threshold)
             a1 == EntropyStrings(base64_strings, BASE64_CHARS, B64EntropyLimit, acc)
             a2 == EntropyStrings(hex_strings, HEX_CHARS, HexEntropyLimit, a1)
         IN EntropyWords(Tail(words), a2)

\* The words of the text in the order the two nested loops visit them.
WordsOf(text) ==
    LET lines == SplitOn(text, "\n", <<>>)
    IN Flatten([k \in DOMAIN lines |-> SplitWords(lines[k], <<>>)])

Finding(b, reason, found_strings, prev, branch_name, commit_time, text) ==
    [path |-> BlobPath(b), reason |-> reason, found_strings |-> found_strings,
     commit_hash |-> hexsha(prev), branch |-> branch_name, date |-> commit_time,
     commit_message |-> message(prev), diff |-> text]

\* _find_entropy: the findings it appends (none or one).
_find_entropy(text, commit_time, branch_name, prev, b, commitHash) ==
    LET r == EntropyWords(WordsOf(text), [found |-> <<>>, text |-> text])
    IN IF Len(r.found) > 0
       THEN <<Finding(b, "High Entropy", r.found, prev, branch_name, commit_time, r.text)>>
       ELSE <<>>

\* ---------------------------------------------------------- regex detector
RECURSIVE Highlight(_, _)
Highlight(text, found_strings) ==
    IF found_strings = <<>> THEN text
    ELSE Highlight(Replace(text, Head(found_strings), make_warning(Head(found_strings))),
                   Tail(found_strings))

\* One iteration of the loop of _regex_check over self.regexes: the text as
\* rebound by the highlighting, and the findings appended (none or one).
RegexRule(rule, text, commit_time, branch_name, prev, b) ==
    LET found_strings == FindAll(rule.regex, text)
        newtext == Highlight(text, found_strings)
    IN [text |-> newtext,
        findings |-> IF found_strings # <<>>
                     THEN <<Finding(b, <<"Regex Match: ", rule.key>>, found_strings,
                                    prev, branch_name, commit_time, newtext)>>
                     ELSE <<>>]

RECURSIVE RegexLoop(_, _, _, _, _, _)
RegexLoop(rules, text, commit_time, branch_name, prev, b) ==
    IF rules = <<>> THEN <<>>
    ELSE LET r == RegexRule(Head(rules), text, commit_time, branch_name, prev, b)
         IN r.findings \o RegexLoop(Tail(rules), r.text, commit_time, branch_name, prev, b)

\* _regex_check: the findings it appends, in order.
_regex_check(rules, text, commit_time, branch_name, prev, b, commitHash) ==
    RegexLoop(rules, text, commit_time, branch_name, prev, b)

\* ------------------------------------------------------------ _search_diff
\* A blob is [a_path, b_path, diff, b_blob]: diff holds the patch bytes (one
\* token per byte, "xFF" a byte that is not valid UTF-8), b_blob what the
\* b side holds: "none" (no blob: b_blob is None), or .pyc contents the
\* decompiler accepts ("good") or rejects ("bad").
BinaryMarker == <<"B", "i", "n", "a", "r", "y", " ", "f", "i", "l", "e", "s">>

PycSuffix == <<".", "p", "y", "c">>

IsPyc(b) == EndsWith(BlobPath(b), PycSuffix)

\* bytes.decode('utf-8', errors='replace')
Decode(bytes) == [i \in DOMAIN bytes |-> IF bytes[i] = "xFF" THEN "uFFFD" ELSE bytes[i]]

\* blob.b_blob.data_stream.read() raises AttributeError when b_blob is None.
CanRead(b) == b.b_blob # "none"

\* uncompyle6.decompile_file returns, or raises on contents it cannot handle.
DecompileOK(b) == b.b_blob = "good"

\* The text decompile_file writes for contents it accepts.
Decompiled(b) == <<"p", "w", "=", "A", "K", "I", "A", "9", "9">>

\* The continue of the binary-file test.
SkipBlobAnyBinary(text, b, inclusions, exclusions) == StartsWith(text, BinaryMarker)

SkipBlob(text, b, inclusions, exclusions) ==
    StartsWith(text, BinaryMarker) /\ ~_path_included(b, inclusions, exclusions)

\* The attribution of a scan: the commit whose hash, date and message the
\* findings of _search_diff(diff, curr_commit, prev_commit, ...) carry.
AttributedCurr(curr, prev) == curr

Attributed(curr, prev) == prev

\* commit_time and the two detector calls: the findings appended for one blob.
EntropyFindings(text, curr, prev, branch_name, b) ==
    _find_entropy(text, FormatTime(committed_date(Attributed(curr, prev))),
                  branch_name, Attributed(curr, prev), b, hexsha(curr))

RegexFindings(rules, text, curr, prev, branch_name, b) ==
    _regex_check(rules, text, FormatTime(committed_date(Attributed(curr, prev))),
                 branch_name, Attributed(curr, prev), b, hexsha(curr))

\* One iteration of the loop of _search_diff.
SearchBlob(b, curr, prev, branch_name, rules, inclusions, exclusions) ==
    IF IsPyc(b)
    THEN IF ~CanRead(b) \/ ~DecompileOK(b)
         THEN [outcome |-> "raised", findings |-> <<>>]
         ELSE [outcome |-> "scanned",
               findings |-> EntropyFindings(Decompiled(b), curr, prev, branch_name, b)
                            \o RegexFindings(rules, Decompiled(b), curr, prev, branch_name, b)]
    ELSE LET text == Decode(b.diff)
         IN IF SkipBlob(text, b, inclusions, exclusions)
            THEN [outcome |-> "skipped", findings |-> <<>>]
            ELSE [outcome |-> "scanned",
                  findings |-> EntropyFindings(text, curr, prev, branch_name, b)
                               \o RegexFindings(rules, text, curr, prev, branch_name, b)]

\* _search_diff as one call: the findings appended, and whether it raised.
RECURSIVE SearchDiffFrom(_, _, _, _, _, _, _, _)
SearchDiffFrom(d, i, curr, prev, branch_name, rules, inclusions, exclusions) ==
    IF i > Len(d) THEN [findings |-> <<>>, raised |-> FALSE]
    ELSE LET r == SearchBlob(d[i], curr, prev, branch_name, rules, inclusions, exclusions)
         IN IF r.outcome = "raised" THEN [findings |-> <<>>, raised |-> TRUE]
            ELSE LET rest == SearchDiffFrom(d, i + 1, curr, prev, branch_name,
                                            rules, inclusions, exclusions)
                 IN [findings |-> r.findings \o rest.findings, raised |-> rest.raised]

_search_diff(d, curr, prev, branch_name, rules, inclusions, exclusions) ==
    SearchDiffFrom(d, 1, curr, prev, branch_name, rules, inclusions, exclusions)

\* ----------------------------------------------------------- the repository
\* History is a forest: parents[c] is the parent of c, an older commit, or
\* NoCommit for a root.  iter_commits(branch, max_count) yields the tip and
\* its ancestors, newest first, at most max_count of them.
RECURSIVE Chain(_, _)
Chain(par, c) == IF c = NoCommit THEN <<>> ELSE <<c>> \o Chain(par, par[c])

Take(s, n) == SubSeq(s, 1, IF n < Len(s) THEN n ELSE Len(s))

IterCommitsOneMore(par, tip, depth) ==
    IF depth = None THEN Chain(par, tip) ELSE Take(Chain(par, tip), depth[1] + 1)

IterCommits(par, tip, depth) ==
    IF depth = None THEN Chain(par, tip) ELSE Take(Chain(par, tip), depth[1])

\* branch.name of the i-th FetchInfo.
BranchName(i) == i

TextPath == <<"a", ".", "t", "x", "t">>
PycPath == <<"m", ".", "p", "y", "c">>
ImgPath == <<"i", ".", "p", "n", "g">>

SecretText == <<"k", "=", "A", "K", "I", "A", "1", "2">>
HexText == <<"t", "=", "0", "1", "2", "3", "4", "5", "6", "7", "8", "9", "a", "b",
             "c", "d", "e", "f", "0", "1", "2", "3", "4">>

Digits == {"0", "1", "2", "3", "4", "5", "6", "7", "8", "9"}

\* The rule set of the walk: AKIA followed by two digits.
WalkRules == <<[key |-> "aws_key", regex |-> Lit(<<"A", "K", "I", "A">>) \o <<Digits, Digits>>]>>

\* The file a commit changed: a text file with a key, a .pyc, a text file
\* with a hexadecimal token, in turn.
CommitBlob(c, pyc) ==
    CASE c % 3 = 1 -> [a_path |-> TextPath, b_path |-> TextPath, diff |-> SecretText,
                       b_blob |-> "none"]
      [] c % 3 = 2 -> [a_path |-> PycPath, b_path |-> PycPath, diff |-> <<>>,
                       b_blob |-> pyc]
      [] OTHER     -> [a_path |-> TextPath, b_path |-> TextPath, diff |-> HexText,
                       b_blob |-> "none"]

\* prev_commit.diff(curr_commit, create_patch=True): what the newer commit changed.
DiffPair(prev, curr, pyc) == <<CommitBlob(prev, pyc)>>

\* curr_commit.diff(NULL_TREE, create_patch=True): the b side is the empty tree.
DiffRoot(c, pyc) == <<[CommitBlob(c, pyc) EXCEPT !.b_blob = "none"]>>

\* ------------------------------------------------------------ idle defaults
engineCfg == <<regexes, path_inclusions, path_exclusions, since_commit, max_depth>>
repoVars == <<parents, branches, pyc_data>>
walkVars == <<bi, todo, prev_commit, curr_commit, scanLog, already_searched>>
diffVars == <<diff, blob_idx, calls, tmpfiles, tmpmade>>
pathVars == <<blob, included>>
regexVars == <<printable_diff, orig_diff, rule_idx>>
appVars == <<repos, repo_idx, url_calls, output, exit_code>>
setVars == <<word, char_set, threshold, char_idx, count, letters, strings>>

NoBlob == [a_path |-> <<>>, b_path |-> <<>>, diff |-> <<>>, b_blob |-> "none"]

WalkIdle ==
    /\ parents = [c \in Commits |-> NoCommit] /\ branches = <<>> /\ pyc_data = "good"
    /\ bi = 1 /\ todo = <<>> /\ prev_commit = NoCommit /\ curr_commit = NoCommit
    /\ scanLog = <<>> /\ already_searched = {}
    /\ since_commit = None /\ max_depth = None

DiffIdle ==
    diff = <<>> /\ blob_idx = 1 /\ calls = <<>> /\ tmpfiles = {} /\ tmpmade = 0

PathIdle == blob = NoBlob /\ included = FALSE

SetIdle ==
    /\ word = <<>> /\ char_set = <<>> /\ threshold = 0
    /\ char_idx = 1 /\ count = 0 /\ letters = <<>> /\ strings = <<>>

RegexIdle == printable_diff = <<>> /\ orig_diff = <<>> /\ rule_idx = 1

AppIdle ==
    repos = <<>> /\ repo_idx = 1 /\ url_calls = <<>> /\ output = <<>> /\ exit_code = 0

\* ------------------------------------------- find_secrets and _search_branch
\* The histories, branch lists and engine arguments the walk is checked on.
ParentMaps == {f \in [Commits -> 0..NCommits] : \A c \in Commits : f[c] < c}
BranchLists == {b \in SeqsUpTo(Commits, MaxBranches) : b # <<>>}
SinceArgs == {None} \cup {Some(hexsha(c)) : c \in Commits}
DepthArgs == {None} \cup {Some(n) : n \in 0..NCommits - 1}

\* SearchEngine(...) on a repository, then find_secrets() over all its branches.
Init ==
    /\ pc = "branch"
    /\ regexes = WalkRules /\ path_inclusions = None /\ path_exclusions = None
    /\ since_commit \in SinceArgs
    /\ max_depth \in DepthArgs
    /\ already_searched = {} /\ findings = <<>>
    /\ parents \in ParentMaps
    /\ branches \in BranchLists
    /\ pyc_data \in {"good", "bad"}
    /\ bi = 1 /\ todo = <<>> /\ prev_commit = NoCommit /\ curr_commit = NoCommit
    /\ scanLog = <<>>
    /\ DiffIdle /\ PathIdle /\ RegexIdle /\ AppIdle /\ SetIdle

\* for remote_branch in branches: the call of _search_branch, up to the loop.
BranchStart ==
    /\ pc = "branch" /\ bi <= Len(branches)
    /\ prev_commit' = NoCommit
    /\ curr_commit' = NoCommit
    /\ todo' = IterCommits(parents, branches[bi], max_depth)
    /\ pc' = "loop"
    /\ UNCHANGED <<engineCfg, setVars, repoVars, bi, scanLog, already_searched, findings,
                   diffVars, pathVars, regexVars, appVars>>

StopNever(c) == FALSE

\* The stop test: curr_commit.hexsha == self.since_commit and since_commit != None.
StopHere(c) == since_commit # None /\ hexsha(c) = since_commit[1]

\* A loop iteration that reaches since_commit: return.
WalkStop ==
    /\ pc = "loop" /\ todo # <<>> /\ StopHere(Head(todo))
    /\ curr_commit' = Head(todo)
    /\ todo' = <<>>
    /\ bi' = bi + 1
    /\ pc' = "branch"
    /\ UNCHANGED <<engineCfg, setVars, repoVars, prev_commit, scanLog, already_searched,
                   findings, diffVars, pathVars, regexVars, appVars>>

\* The test before a diff: a previous commit, and a diff hash not yet searched.
ShouldScanNoMemo(prev, curr, searched) == prev # NoCommit

ShouldScan(prev, curr, searched) ==
    prev # NoCommit /\ _calculate_diff_hash(prev, curr) \notin searched

\* A loop iteration that diffs nothing: the newest commit, or a pair already searched.
WalkSkip ==
    /\ pc = "loop" /\ todo # <<>> /\ ~StopHere(Head(todo))
    /\ ~ShouldScan(prev_commit, Head(todo), already_searched)
    /\ curr_commit' = Head(todo)
    /\ prev_commit' = Head(todo)
    /\ todo' = Tail(todo)
    /\ UNCHANGED <<pc, engineCfg, setVars, repoVars, bi, scanLog, already_searched, findings,
                   diffVars, pathVars, regexVars, appVars>>

\* A loop iteration that diffs the pair and searches the diff.
WalkScan ==
    /\ pc = "loop" /\ todo # <<>> /\ ~StopHere(Head(todo))
    /\ ShouldScan(prev_commit, Head(todo), already_searched)
    /\ \E curr \in {Head(todo)} :
       \E r \in {_search_diff(DiffPair(prev_commit, curr, pyc_data), curr, prev_commit,
                              BranchName(bi), regexes, path_inclusions, path_exclusions)} :
          /\ curr_commit' = curr
          /\ already_searched' = already_searched \cup {_calculate_diff_hash(prev_commit, curr)}
          /\ findings' = findings \o r.findings
          /\ scanLog' = Append(scanLog,
                 [kind |-> "pair", prev |-> prev_commit, curr |-> curr,
                  branch |-> BranchName(bi), lo |-> Len(findings),
                  hi |-> Len(findings) + Len(r.findings), raised |-> r.raised])
          /\ IF r.raised
             THEN pc' = "raised" /\ UNCHANGED <<prev_commit, todo>>
             ELSE pc' = pc /\ prev_commit' = curr /\ todo' = Tail(todo)
    /\ UNCHANGED <<engineCfg, setVars, repoVars, bi, diffVars, pathVars, regexVars, appVars>>

\* After the loop: the diff of the oldest visited commit against the empty tree.
\* With no commit visited curr_commit is unbound and the statement raises.
WalkFinal ==
    /\ pc = "loop" /\ todo = <<>>
    /\ IF curr_commit = NoCommit
       THEN pc' = "raised" /\ UNCHANGED <<findings, scanLog, bi>>
       ELSE \E r \in {_search_diff(DiffRoot(curr_commit, pyc_data), curr_commit, prev_commit,
                                   BranchName(bi), regexes, path_inclusions, path_exclusions)} :
               /\ findings' = findings \o r.findings
               /\ scanLog' = Append(scanLog,
                      [kind |-> "root", prev |-> prev_commit, curr |-> curr_commit,
                       branch |-> BranchName(bi), lo |-> Len(findings),
                       hi |-> Len(findings) + Len(r.findings), raised |-> r.raised])
               /\ IF r.raised THEN pc' = "raised" /\ bi' = bi
                              ELSE pc' = "branch" /\ bi' = bi + 1
    /\ UNCHANGED <<engineCfg, setVars, repoVars, todo, prev_commit, curr_commit, already_searched,
                   diffVars, pathVars, regexVars, appVars>>

\* self._print_results(print_json): findings are printed, none is changed.
PrintResults ==
    /\ pc = "branch" /\ bi > Len(branches)
    /\ pc' = "done"
    /\ UNCHANGED <<engineCfg, setVars, repoVars, walkVars, findings, diffVars, pathVars,
                   regexVars, appVars>>

Next == BranchStart \/ WalkStop \/ WalkSkip \/ WalkScan \/ WalkFinal \/ PrintResults

Spec == Init /\ [][Next]_vars

\* ------------------------------------------------------ claims on the walk
\* The commits the walk of branch b visits when nothing stops it: the first
\* k = min(chain length, max_depth) commits of the branch, newest first.
Visited(b) ==
    LET chain == Chain(parents, branches[b])
        k == IF max_depth = None \/ max_depth[1] > Len(chain)
             THEN Len(chain) ELSE max_depth[1]
    IN [i \in 1..k |-> chain[i]]

\* The scans of branch b so far, each as <<kind, newer, older>>.
BranchEntries(b) == SelectSeq(scanLog, LAMBDA e : e.branch = BranchName(b))
BranchScans(b) ==
    [i \in DOMAIN BranchEntries(b) |->
        <<BranchEntries(b)[i].kind, BranchEntries(b)[i].prev, BranchEntries(b)[i].curr>>]

IsPrefix(s, t) == Len(s) <= Len(t) /\ SubSeq(t, 1, Len(s)) = s

\* Every finding was appended by a logged scan, in log order.
FindingsAccounted ==
    /\ \A i \in DOMAIN scanLog :
          /\ scanLog[i].lo = (IF i = 1 THEN 0 ELSE scanLog[i - 1].hi)
          /\ scanLog[i].lo <= scanLog[i].hi
    /\ Len(findings) = (IF scanLog = <<>> THEN 0 ELSE scanLog[Len(scanLog)].hi)

\* C1: in one run, over all branches, an ordered pair (newer, older) of
\* adjacent commits is diffed and searched at most once; its diff hash is then
\* in already_searched, and findings come from logged scans only, so reaching
\* the pair again appends nothing.
C1_PairScannedAtMostOnce ==
    /\ \A i, j \in DOMAIN scanLog :
          (/\ scanLog[i].kind = "pair" /\ scanLog[j].kind = "pair"
           /\ scanLog[i].prev = scanLog[j].prev
           /\ scanLog[i].curr = scanLog[j].curr) => i = j
    /\ already_searched =
          {_calculate_diff_hash(scanLog[i].prev, scanLog[i].curr) :
              i \in {k \in DOMAIN scanLog : scanLog[k].kind = "pair"}}
    /\ FindingsAccounted

\* A later branch has walked over a pair an earlier branch searched.
C1_Witness ==
    /\ pc = "loop" /\ bi >= 2 /\ prev_commit # NoCommit
    /\ \E i \in DOMAIN scanLog : \E k \in 1..Len(Visited(bi)) - 1 :
          /\ scanLog[i].kind = "pair" /\ scanLog[i].branch < bi /\ ~scanLog[i].raised
          /\ scanLog[i].hi > scanLog[i].lo
          /\ Visited(bi)[k] = scanLog[i].prev /\ Visited(bi)[k + 1] = scanLog[i].curr
          /\ prev_commit = scanLog[i].curr
          /\ Len(todo) = Len(Visited(bi)) - (k + 1)

\* C2: every scan of shared ancestry, the scan of the oldest commit against
\* the empty tree included, happens once in a run.
C2_SharedAncestryScannedOnce ==
    \A i, j \in DOMAIN scanLog :
        (/\ scanLog[i].kind = scanLog[j].kind
         /\ scanLog[i].prev = scanLog[j].prev
         /\ scanLog[i].curr = scanLog[j].curr) => i = j

\* The scans of a walk that visits vis: the pairs, newest first, then the
\* oldest commit against the empty tree.
ExpectedScans(vis) ==
    [i \in 1..Len(vis) |-> IF i < Len(vis) THEN <<"pair", vis[i], vis[i + 1]>>
                                           ELSE <<"root", vis[i], vis[i]>>]

\* The loop of the first branch has visited all its commits and the statement
\* after the loop has run.
FirstWalkOver == bi > 1 \/ (pc = "raised" /\ todo = <<>>)

\* C3: on a fresh engine without since_commit, the first branch, visiting
\* k >= 1 commits c1..ck, is searched by exactly k scans: (c2 vs c1), ...,
\* (ck vs c(k-1)) in this order, then ck against the empty tree; while the walk
\* runs the scans made are a prefix of these.
C3_ScansOfFreshWalk ==
    (since_commit = None /\ Len(Visited(1)) >= 1) =>
        /\ IsPrefix(BranchScans(1), ExpectedScans(Visited(1)))
        /\ FirstWalkOver => BranchScans(1) = ExpectedScans(Visited(1))

\* A walk of three commits is over: two pair scans and the empty-tree scan.
C3_Witness ==
    /\ since_commit = None /\ bi > 1 /\ Len(Visited(1)) = 3
    /\ Len(BranchScans(1)) = 3
    /\ BranchScans(1)[3][1] = "root"

\* The commit's hash equals the configured since_commit.
IsSince(c) == since_commit # None /\ since_commit[1] = hexsha(c)

\* The position of since_commit among the commits branch b visits, 0 if none.
StopPos(b) ==
    IF \E k \in DOMAIN Visited(b) : IsSince(Visited(b)[k])
    THEN CHOOSE k \in DOMAIN Visited(b) :
            /\ IsSince(Visited(b)[k])
            /\ \A m \in 1..k - 1 : ~IsSince(Visited(b)[m])
    ELSE 0

\* C4: a branch whose walk reaches since_commit at position p is searched by
\* pair scans of commits before p only: the pair (c(p-1), cp) is not scanned,
\* no older pair is, the empty-tree scan is not made, and the walk of the
\* branch ends there; the findings of the pairs scanned before stay in
\* findings as appended.
C4_StopAtSinceCommit ==
    \A b \in 1..Len(branches) :
        StopPos(b) > 0 =>
            /\ \A i \in DOMAIN BranchEntries(b) :
                  LET e == BranchEntries(b)[i]
                  IN /\ e.kind = "pair"
                     /\ \E k \in 1..StopPos(b) - 2 :
                           e.prev = Visited(b)[k] /\ e.curr = Visited(b)[k + 1]
                     /\ e.hi <= Len(findings)
                     /\ SubSeq(findings, e.lo + 1, e.hi)
                          = _search_diff(DiffPair(e.prev, e.curr, pyc_data), e.curr, e.prev,
                                         BranchName(b), regexes, path_inclusions,
                                         path_exclusions).findings
            /\ (b = bi /\ pc = "loop") => Len(todo) > Len(Visited(b)) - StopPos(b)

C4_Witness ==
    \E b \in 1..Len(branches) :
        /\ b < bi /\ StopPos(b) >= 3
        /\ \E i \in DOMAIN BranchEntries(b) :
              BranchEntries(b)[i].hi > BranchEntries(b)[i].lo

PngDir == <<"p", "n", "g", "/", "a">>

PathPool == {TextPath, ImgPath, PngDir}

\* Blobs by their two paths; one of them may be absent, not both.
PathBlobs ==
    {[a_path |-> a, b_path |-> b, diff |-> <<>>, b_blob |-> "none"] :
        <<a, b>> \in {q \in (PathPool \cup {<<>>}) \X (PathPool \cup {<<>>}) :
                        q[1] # <<>> \/ q[2] # <<>>}}

\* Compiled path patterns: "a", "png", and "[ai]\.".
PathPatterns == {Lit(<<"a">>), Lit(<<"p", "n", "g">>), <<{"a", "i"}, {"."}>>}

\* What _compile_path_regexes returns: None, or a list (empty for a file of
\* comments only).
PatternArgs == {None} \cup {Some(l) : l \in SeqsUpTo(PathPatterns, MaxPatterns)}

InitPath ==
    /\ pc = "call"
    /\ blob \in PathBlobs
    /\ path_inclusions \in PatternArgs
    /\ path_exclusions \in PatternArgs
    /\ included = FALSE
    /\ regexes = <<>> /\ findings = <<>>
    /\ WalkIdle /\ DiffIdle /\ RegexIdle /\ AppIdle /\ SetIdle

PathIncludedCall ==
    /\ pc = "call"
    /\ included' = _path_included(blob, path_inclusions, path_exclusions)
    /\ pc' = "returned"
    /\ UNCHANGED <<engineCfg, setVars, repoVars, walkVars, findings, diffVars, blob, regexVars,
                   appVars>>

NextPath == PathIncludedCall

SpecPath == InitPath /\ [][NextPath]_vars

\* The pattern matches a prefix of the path.
MatchesAtStart(pattern, path) ==
    /\ Len(pattern) <= Len(path)
    /\ \A k \in 1..Len(pattern) : path[k] \in pattern[k]

\* The pattern set is given and not empty.
Constrains(patterns) == patterns # None /\ Len(patterns[1]) > 0

SomeMatchesAtStart(patterns, path) ==
    \E k \in 1..Len(patterns[1]) : MatchesAtStart(patterns[1][k], path)

\* C6: _path_included returns true exactly when (inclusions is absent or
\* empty, or some inclusion pattern matches at the start of the path) and
\* (exclusions is absent or empty, or no exclusion pattern matches at the
\* start of the path).
C6_PathIncluded ==
    pc = "returned" =>
        (included <=>
            /\ (~Constrains(path_inclusions)
                \/ SomeMatchesAtStart(path_inclusions, BlobPath(blob)))
            /\ (~Constrains(path_exclusions)
                \/ ~SomeMatchesAtStart(path_exclusions, BlobPath(blob))))

\* A path that fails a non-empty inclusion set and matches no exclusion of a
\* non-empty exclusion set has been rejected.
C6_Witness ==
    /\ pc = "returned" /\ ~included
    /\ Constrains(path_inclusions) /\ Constrains(path_exclusions)
    /\ ~SomeMatchesAtStart(path_inclusions, BlobPath(blob))
    /\ ~SomeMatchesAtStart(path_exclusions, BlobPath(blob))

\* --------------------------------------------- _search_diff, blob by blob
BinaryText == BinaryMarker \o <<" ", "x">>

BlobPool ==
    { [a_path |-> TextPath, b_path |-> TextPath, diff |-> SecretText, b_blob |-> "none"],
      [a_path |-> ImgPath, b_path |-> ImgPath, diff |-> SecretText, b_blob |-> "none"],
      [a_path |-> ImgPath, b_path |-> ImgPath, diff |-> BinaryText, b_blob |-> "none"],
      [a_path |-> TextPath, b_path |-> <<>>, diff |-> BinaryText, b_blob |-> "none"],
      [a_path |-> ImgPath, b_path |-> ImgPath, diff |-> <<"xFF">> \o BinaryText,
       b_blob |-> "none"],
      [a_path |-> PycPath, b_path |-> PycPath, diff |-> BinaryText, b_blob |-> "good"],
      [a_path |-> PycPath, b_path |-> PycPath, diff |-> BinaryText, b_blob |-> "bad"],
      [a_path |-> PycPath, b_path |-> <<>>, diff |-> BinaryText, b_blob |-> "none"] }

DiffFilterArgs == {None, Some(<<>>), Some(<<Lit(<<"i">>)>>)}

\* One call _search_diff(diff, curr_commit, prev_commit, branch_name).
InitDiff ==
    /\ pc = "blob"
    /\ diff \in SeqsUpTo(BlobPool, MaxBlobs)
    /\ path_inclusions \in DiffFilterArgs
    /\ path_exclusions \in DiffFilterArgs
    /\ regexes = WalkRules
    /\ blob_idx = 1 /\ calls = <<>> /\ tmpfiles = {} /\ tmpmade = 0
    /\ findings = <<>>
    /\ parents = [c \in Commits |-> c - 1] /\ branches = <<2>> /\ pyc_data = "good"
    /\ bi = 1 /\ todo = <<>> /\ prev_commit = 2 /\ curr_commit = 1
    /\ scanLog = <<>> /\ already_searched = {}
    /\ since_commit = None /\ max_depth = None
    /\ PathIdle /\ RegexIdle /\ AppIdle /\ SetIdle

\* The two detector calls on one blob's text, as the history records them.
DetectorCalls(i, ef, rf) ==
    <<[blob |-> i, detector |-> "entropy", nfound |-> Len(ef)],
      [blob |-> i, detector |-> "regex", nfound |-> Len(rf)]>>

\* An iteration on a blob that is no .pyc: decode, the binary-file test, the
\* detectors.
DiffText ==
    /\ pc = "blob" /\ blob_idx <= Len(diff) /\ ~IsPyc(diff[blob_idx])
    /\ \E b \in {diff[blob_idx]} : \E text \in {Decode(diff[blob_idx].diff)} :
          IF SkipBlob(text, b, path_inclusions, path_exclusions)
          THEN UNCHANGED <<findings, calls>>
          ELSE \E ef \in {EntropyFindings(text, curr_commit, prev_commit, BranchName(bi), b)} :
               \E rf \in {RegexFindings(regexes, text, curr_commit, prev_commit,
                                        BranchName(bi), b)} :
                  /\ findings' = findings \o ef \o rf
                  /\ calls' = calls \o DetectorCalls(blob_idx, ef, rf)
    /\ blob_idx' = blob_idx + 1
    /\ UNCHANGED <<pc, engineCfg, setVars, repoVars, walkVars, diff, tmpfiles, tmpmade, pathVars,
                   regexVars, appVars>>

\* An iteration on a .pyc, first half: the temporary file is created and the
\* b side written to it.  Without a b side the read raises and the with
\* statement removes the file on the way out.
DiffPycWrite ==
    /\ pc = "blob" /\ blob_idx <= Len(diff) /\ IsPyc(diff[blob_idx])
    /\ tmpmade' = tmpmade + 1
    /\ IF CanRead(diff[blob_idx])
       THEN tmpfiles' = tmpfiles \cup {tmpmade + 1} /\ pc' = "decompile"
       ELSE tmpfiles' = tmpfiles /\ pc' = "raised"
    /\ UNCHANGED <<engineCfg, setVars, repoVars, walkVars, findings, diff, blob_idx, calls,
                   pathVars, regexVars, appVars>>

\* Second half: decompile_file.  It raises out of _search_diff, or its text
\* goes to the detectors; the with statement removes the file either way.
DiffPycDecompile ==
    /\ pc = "decompile"
    /\ tmpfiles' = tmpfiles \ {tmpmade}
    /\ IF DecompileOK(diff[blob_idx])
       THEN \E b \in {diff[blob_idx]} :
            \E ef \in {EntropyFindings(Decompiled(b), curr_commit, prev_commit,
                                       BranchName(bi), b)} :
            \E rf \in {RegexFindings(regexes, Decompiled(b), curr_commit, prev_commit,
                                     BranchName(bi), b)} :
               /\ findings' = findings \o ef \o rf
               /\ calls' = calls \o DetectorCalls(blob_idx, ef, rf)
               /\ blob_idx' = blob_idx + 1
               /\ pc' = "blob"
       ELSE pc' = "raised" /\ UNCHANGED <<findings, calls, blob_idx>>
    /\ UNCHANGED <<engineCfg, setVars, repoVars, walkVars, diff, tmpmade, pathVars, regexVars,
                   appVars>>

\* The loop is over: _search_diff returns.
DiffReturn ==
    /\ pc = "blob" /\ blob_idx > Len(diff)
    /\ pc' = "returned"
    /\ UNCHANGED <<engineCfg, setVars, repoVars, walkVars, findings, diffVars, pathVars,
                   regexVars, appVars>>

NextDiff == DiffText \/ DiffPycWrite \/ DiffPycDecompile \/ DiffReturn

SpecDiff == InitDiff /\ [][NextDiff]_vars

\* The detector calls made on blob i.
CallsOn(i) == SelectSeq(calls, LAMBDA c : c.blob = i)

RECURSIVE SumFound(_)
SumFound(cs) == IF cs = <<>> THEN 0 ELSE Head(cs).nfound + SumFound(Tail(cs))

\* The path filter rejects the blob's path.
Rejected(b) ==
    \/ (Constrains(path_inclusions) /\ ~SomeMatchesAtStart(path_inclusions, BlobPath(b)))
    \/ (Constrains(path_exclusions) /\ SomeMatchesAtStart(path_exclusions, BlobPath(b)))

C8_DecompileFailureIsLocal ==
    pc \in {"returned", "raised"} =>
        \A i \in DOMAIN diff :
            (IsPyc(diff[i]) /\ CanRead(diff[i]) /\ ~DecompileOK(diff[i]) /\ i <= blob_idx) =>
                /\ CallsOn(i) = <<>>
                /\ tmpfiles = {}
                /\ \A j \in i + 1..Len(diff) : j < blob_idx

\* ------------------------------------------------- _regex_check, rule by rule
\* Diff texts over a small alphabet.
Texts == SeqsUpTo({"A", "B"}, MaxText)

\* Rules: "A", "AB" and "B".
RulePool ==
    { [key |-> "a", regex |-> Lit(<<"A">>)],
      [key |-> "ab", regex |-> Lit(<<"A", "B">>)],
      [key |-> "b", regex |-> Lit(<<"B">>)] }

\* self.regexes: a dict, so the keys differ; iteration is in insertion order.
RuleSets ==
    {r \in SeqsUpTo(RulePool, MaxRules) :
        \A i, j \in DOMAIN r : r[i].key = r[j].key => i = j}

\* One call _regex_check(printable_diff, commit_time, branch_name, prev_commit,
\* blob, commitHash) for a blob of the pair (2, 1).
InitRegex ==
    /\ pc = "rules"
    /\ orig_diff \in Texts
    /\ printable_diff = orig_diff
    /\ regexes \in RuleSets
    /\ rule_idx = 1
    /\ findings = <<>>
    /\ blob = [a_path |-> TextPath, b_path |-> TextPath, diff |-> <<>>, b_blob |-> "none"]
    /\ included = FALSE
    /\ path_inclusions = None /\ path_exclusions = None
    /\ parents = [c \in Commits |-> c - 1] /\ branches = <<2>> /\ pyc_data = "good"
    /\ bi = 1 /\ todo = <<>> /\ prev_commit = 2 /\ curr_commit = 1
    /\ scanLog = <<>> /\ already_searched = {}
    /\ since_commit = None /\ max_depth = None
    /\ DiffIdle /\ AppIdle /\ SetIdle

\* One iteration of "for key, regex in self.regexes.items()".
RegexStep ==
    /\ pc = "rules" /\ rule_idx <= Len(regexes)
    /\ \E r \in {RegexRule(regexes[rule_idx], printable_diff,
                           FormatTime(committed_date(prev_commit)), BranchName(bi),
                           prev_commit, blob)} :
          /\ printable_diff' = r.text
          /\ findings' = findings \o r.findings
    /\ rule_idx' = rule_idx + 1
    /\ UNCHANGED <<pc, engineCfg, setVars, repoVars, walkVars, diffVars, pathVars, orig_diff,
                   appVars>>

RegexReturn ==
    /\ pc = "rules" /\ rule_idx > Len(regexes)
    /\ pc' = "returned"
    /\ UNCHANGED <<engineCfg, setVars, repoVars, walkVars, findings, diffVars, pathVars,
                   regexVars, appVars>>

NextRegex == RegexStep \/ RegexReturn

SpecRegex == InitRegex /\ [][NextRegex]_vars

\* The rules with a match in the text, in rule order, each with its matches.
RECURSIVE MatchingRules(_, _)
MatchingRules(rules, text) ==
    IF rules = <<>> THEN <<>>
    ELSE (IF FindAll(Head(rules).regex, text) # <<>>
          THEN <<[reason |-> <<"Regex Match: ", Head(rules).key>>,
                  found_strings |-> FindAll(Head(rules).regex, text)]>>
          ELSE <<>>)
         \o MatchingRules(Tail(rules), text)

\* C10: _regex_check appends, in rule order, one finding for each rule with a
\* match in the diff text it was passed and none for a rule without; the
\* finding's reason names the rule and its found_strings are all matches of the
\* rule in that text, whatever rules precede it.
C10_OneFindingPerMatchingRule ==
    pc = "returned" =>
        [i \in DOMAIN findings |->
            [reason |-> findings[i].reason, found_strings |-> findings[i].found_strings]]
          = MatchingRules(regexes, orig_diff)

\* ------------------------------------------------------- app.github, app.url
\* A user's repositories: each has its own clone URL, and clones or not.
RepoPool == [clone_url : 1..MaxRepos, clonable : BOOLEAN]
RepoLists ==
    {r \in SeqsUpTo(RepoPool, MaxRepos) :
        \A i, j \in DOMAIN r : r[i].clone_url = r[j].clone_url => i = j}

ErrConnect == "ERROR: Could not connect to Github with provided key"
ErrRepos == "ERROR: Could not get Github repos for user"
ErrClone == "ERROR: Could not clone repo"

\* The github command on a user whose repository list is repos.
InitApp ==
    /\ pc = "start"
    /\ repos \in RepoLists
    /\ repo_idx = 1 /\ url_calls = <<>> /\ output = <<>> /\ exit_code = 0
    /\ regexes = <<>> /\ path_inclusions = None /\ path_exclusions = None
    /\ findings = <<>>
    /\ WalkIdle /\ DiffIdle /\ PathIdle /\ RegexIdle /\ SetIdle

\* g = Github(args.key): on an exception the error is printed and the
\* process exits with 1.
GithubConnect ==
    /\ pc = "start"
    /\ \E ok \in BOOLEAN :
          IF ok THEN pc' = "list" /\ UNCHANGED <<output, exit_code>>
          ELSE /\ output' = Append(output, ErrConnect)
               /\ exit_code' = 1
               /\ pc' = "exited"
    /\ UNCHANGED <<engineCfg, setVars, repoVars, walkVars, findings, diffVars, pathVars,
                   regexVars, repos, repo_idx, url_calls>>

\* g.get_user(args.user).get_repos(): an exception lands in the except clause
\* around the loop.
GithubList ==
    /\ pc = "list"
    /\ \E ok \in BOOLEAN :
          IF ok THEN pc' = "repos" /\ UNCHANGED output
          ELSE output' = Append(output, ErrRepos) /\ pc' = "returned"
    /\ UNCHANGED <<engineCfg, setVars, repoVars, walkVars, findings, diffVars, pathVars,
                   regexVars, repos, repo_idx, url_calls, exit_code>>

\* url(args) for one repository: what it prints, and how it ends.  A failed
\* clone prints and calls sys.exit(1), which raises SystemExit; after a clone
\* find_secrets is called with skip_entropy and skip_regex, keywords it does
\* not take, which raises TypeError.
url(repo) ==
    IF repo.clonable THEN [printed |-> <<>>, raises |-> "TypeError"]
    ELSE [printed |-> <<ErrClone>>, raises |-> "SystemExit"]

\* One iteration of the loop of github: args.URL is set and url(args) called.
\* Whatever url raises is caught by the bare except around the loop, which
\* prints and lets github return.
GithubUrl ==
    /\ pc = "repos" /\ repo_idx <= Len(repos)
    /\ url_calls' = Append(url_calls, repos[repo_idx].clone_url)
    /\ \E r \in {url(repos[repo_idx])} :
          IF r.raises = "none"
          THEN output' = output \o r.printed /\ repo_idx' = repo_idx + 1 /\ pc' = pc
          ELSE /\ output' = output \o r.printed \o <<ErrRepos>>
               /\ repo_idx' = repo_idx
               /\ pc' = "returned"
    /\ UNCHANGED <<engineCfg, setVars, repoVars, walkVars, findings, diffVars, pathVars,
                   regexVars, repos, exit_code>>

\* The repository list is exhausted: github returns.
GithubDone ==
    /\ pc = "repos" /\ repo_idx > Len(repos)
    /\ pc' = "returned"
    /\ UNCHANGED <<engineCfg, setVars, repoVars, walkVars, findings, diffVars, pathVars,
                   regexVars, appVars>>

NextApp == GithubConnect \/ GithubList \/ GithubUrl \/ GithubDone

SpecApp == InitApp /\ [][NextApp]_vars

\* C9: when the clone of a repository fails in the github command, the
\* failure is reported and url is still called for every repository after it in
\* the list.
C9_CloneFailureDoesNotEndEnumeration ==
    pc = "returned" =>
        \A i \in DOMAIN url_calls :
            ~repos[i].clonable =>
                /\ \E k \in DOMAIN output : output[k] = ErrClone
                /\ Len(url_calls) = Len(repos)
                /\ \A j \in i + 1..Len(repos) : url_calls[j] = repos[j].clone_url

\* ------------------------------------------------- _get_strings_of_set

\* The characters words are made of: "a" is in both character sets, "g" in
\* BASE64_CHARS only, "-" in neither.
WordChars == {"a", "g", "-"}

\* n times the character c.
Repeat(c, n) == [i \in 1..n |-> c]

\* Runs one shorter than, as long as, and one longer than the default
\* threshold, alone or ahead of a separator and a second, short run.
DefaultWords ==
    UNION {{Repeat("a", n), Repeat("a", n) \o <<"-", "a">>} :
              n \in Threshold - 1..Threshold + 1}

WordArgs == SeqsUpTo(WordChars, MaxWord) \cup DefaultWords
CharSetArgs == {BASE64_CHARS, HEX_CHARS}
ThresholdArgs == 1..MaxThreshold \cup {Threshold}

\* A call _get_strings_of_set(word, char_set, threshold), at the top of
\* its loop: count = 0, letters = "", strings = [].
InitStrings ==
    /\ pc = "chars"
    /\ word \in WordArgs /\ char_set \in CharSetArgs /\ threshold \in ThresholdArgs
    /\ char_idx = 1 /\ count = 0 /\ letters = <<>> /\ strings = <<>>
    /\ regexes = <<>> /\ path_inclusions = None /\ path_exclusions = None
    /\ findings = <<>>
    /\ WalkIdle /\ DiffIdle /\ PathIdle /\ RegexIdle /\ AppIdle

\* One iteration with char in char_set: the run grows.
StringsExtend ==
    /\ pc = "chars" /\ char_idx <= Len(word)
    /\ word[char_idx] \in Range(char_set)
    /\ letters' = Append(letters, word[char_idx])
    /\ count' = count + 1
    /\ char_idx' = char_idx + 1
    /\ UNCHANGED <<pc, engineCfg, repoVars, walkVars, findings, diffVars, pathVars,
                   regexVars, appVars, word, char_set, threshold, strings>>

\* One iteration with char outside char_set: the run that ended is appended
\* if count > threshold, and the run is reset.
StringsBreak ==
    /\ pc = "chars" /\ char_idx <= Len(word)
    /\ word[char_idx] \notin Range(char_set)
    /\ strings' = IF count > threshold THEN Append(strings, letters) ELSE strings
    /\ letters' = <<>>
    /\ count' = 0
    /\ char_idx' = char_idx + 1
    /\ UNCHANGED <<pc, engineCfg, repoVars, walkVars, findings, diffVars, pathVars,
                   regexVars, appVars, word, char_set, threshold>>

\* After the loop: the last run is appended if count > threshold, and
\* strings is returned.
StringsReturn ==
    /\ pc = "chars" /\ char_idx > Len(word)
    /\ strings' = IF count > threshold THEN Append(strings, letters) ELSE strings
    /\ pc' = "returned"
    /\ UNCHANGED <<engineCfg, repoVars, walkVars, findings, diffVars, pathVars,
                   regexVars, appVars, word, char_set, threshold, char_idx, count,
                   letters>>

NextStrings == StringsExtend \/ StringsBreak \/ StringsReturn

SpecStrings == InitStrings /\ [][NextStrings]_vars

\* word[i..j] is a maximal contiguous run of characters of char_set.
IsMaximalRun(i, j) ==
    /\ i <= j
    /\ \A k \in i..j : word[k] \in Range(char_set)
    /\ i = 1 \/ word[i - 1] \notin Range(char_set)
    /\ j = Len(word) \/ word[j + 1] \notin Range(char_set)

\* The start positions of the maximal runs of length at least n.
RunStarts(n) ==
    {i \in DOMAIN word :
        \E j \in DOMAIN word : IsMaximalRun(i, j) /\ j - i + 1 >= n}

\* The maximal run that starts at i.
RunFrom(i) ==
    LET j == CHOOSE k \in DOMAIN word : IsMaximalRun(i, k)
    IN [k \in 1..j - i + 1 |-> word[i + k - 1]]

\* The maximal runs of length at least n, in order of occurrence.
RunsAtLeast(n) ==
    LET starts == RunStarts(n)
        nth[k \in 1..Cardinality(starts)] ==
            CHOOSE i \in starts : Cardinality({x \in starts : x < i}) = k - 1
    IN [k \in 1..Cardinality(starts) |-> RunFrom(nth[k])]

\* C11: for every word, character set and threshold, the strings returned by
\* _get_strings_of_set are, in order of occurrence, exactly the maximal
\* contiguous runs of characters of the set whose length is at least the
\* threshold; a run of exactly 20 characters survives with the default.
C11_RunsOfThresholdLengthKept ==
    pc = "returned" => strings = RunsAtLeast(threshold)

============================================================================
